---- MODULE Spec2Model ----
(***************************************************************************)
(* env-smart: the `env!` procedural macro.                                 *)
(*                                                                         *)
(* The model follows src/lib.rs and src/format.rs:                         *)
(*   - read_envs        the loader that merges `.env` with the process     *)
(*                      environment;                                       *)
(*   - read_cached_envs the process wide cell guarded by std::sync::Once;  *)
(*   - Format::next     the placeholder scanner;                           *)
(*   - env              the macro body that drives the scanner and applies *)
(*                      the bare name rule.                                *)
(*                                                                         *)
(* Strings are sequences of one-character strings (bytes of ASCII text).   *)
(* Every macro expansion is a thread of the same process.                  *)
(***************************************************************************)
EXTENDS Integers, Sequences, FiniteSets, TLC

VARIABLES
    dotenv,            \* the `.env` file as the file system holds it now
    environ,           \* the live process environment: name -> value
    debug_assertions,  \* cfg!(debug_assertions) of the build of the macro crate
    once,              \* LOCK: state of the std::sync::Once
    cell,              \* STATE: the MaybeUninit cell behind the UnsafeCell
    calls,             \* number of read_envs invocations started so far
    frame              \* per thread: the activation of `env`

vars == <<dotenv, environ, debug_assertions, once, cell, calls, frame>>

(***************************************************************************)
(* Bounds of the model.                                                    *)
(***************************************************************************)
NumThreads == 2
MaxLen == 6
MaxLines == 3

Threads == 1..NumThreads

(***************************************************************************)
(* Characters and strings.                                                 *)
(***************************************************************************)
QUOTE == "\""
ARG_START == "{"
ARG_END == "}"
EQ == "="
\* stands for a byte sequence that is not valid UTF-8
BAD_UTF8 == "?"

Range(s) == {s[i] : i \in 1..Len(s)}

Strings(S, n) == UNION {[1..k -> S] : k \in 0..n}

\* str::find(char): 1-based position of the first occurrence, 0 for None
find(s, c) ==
    IF \E i \in 1..Len(s) : s[i] = c
    THEN CHOOSE i \in 1..Len(s) : s[i] = c /\ \A j \in 1..(i - 1) : s[j] # c
    ELSE 0

\* &s[from..] with `from` a 0-based byte offset
SliceFrom(s, from) == SubSeq(s, from + 1, Len(s))

(***************************************************************************)
(* HashMap<String, String>: a function from the keys present to values.    *)
(***************************************************************************)
EmptyMap == [k \in {} |-> <<>>]

\* HashMap::insert: the value of `key` is set, whether or not it was present
Put(m, key, value) ==
    [k \in (DOMAIN m) \cup {key} |-> IF k = key THEN value ELSE m[k]]

(***************************************************************************)
(* read_envs: the loader.                                                  *)
(***************************************************************************)
\* compile_error(..) of the loader, by the message it formats
LoadError(kind, name) == [kind |-> kind, name |-> name]

LoadOk(envs) == [kind |-> "Ok", table |-> envs]

LoadErr(error) == [kind |-> "Err", error |-> error]

\* a split at the last separator of the line
SplitLine_LastSeparator(line) ==
    IF EQ \notin Range(line)
    THEN [key |-> line, has_value |-> FALSE, value |-> <<>>]
    ELSE LET at == CHOOSE i \in 1..Len(line) :
                      line[i] = EQ /\ \A j \in (i + 1)..Len(line) : line[j] # EQ
         IN  [key |-> SubSeq(line, 1, at - 1), has_value |-> TRUE,
              value |-> SubSeq(line, at + 1, Len(line))]

\* line.splitn(2, '='): the key, and the value when there is a '='
SplitLine(line) ==
    LET at == find(line, EQ)
    IN  IF at = 0
        THEN [key |-> line, has_value |-> FALSE, value |-> <<>>]
        ELSE [key |-> SubSeq(line, 1, at - 1), has_value |-> TRUE,
              value |-> SubSeq(line, at + 1, Len(line))]

\* a loop body in which a repeated name overwrites the earlier value
ReadLine_LastWins(envs, line) ==
    IF BAD_UTF8 \in Range(line)
    THEN LoadErr(LoadError("SourceReadFailure", <<>>))
    ELSE LET split == SplitLine(line)
         IN  IF ~split.has_value
             THEN LoadErr(LoadError("SourceMalformedLine", split.key))
             ELSE LoadOk(Put(envs, split.key, split.value))

\* the body of `for line in file.lines()` for one line, given the table so far:
\* the table with the line inserted, or the error the loader returns
ReadLine(envs, line) ==
    IF BAD_UTF8 \in Range(line)
    THEN LoadErr(LoadError("SourceReadFailure", <<>>))
    ELSE LET split == SplitLine(line)
         IN  IF ~split.has_value
             THEN LoadErr(LoadError("SourceMalformedLine", split.key))
             ELSE IF split.key \in DOMAIN envs
                  THEN LoadErr(LoadError("SourceDuplicateKey", split.key))
                  ELSE LoadOk(Put(envs, split.key, split.value))

\* the loop over the lines of the file, in file order, stopping at the first error
RECURSIVE ReadLines(_, _)
ReadLines(envs, lines) ==
    IF lines = <<>>
    THEN LoadOk(envs)
    ELSE LET r == ReadLine(envs, Head(lines))
         IN  IF r.kind = "Err" THEN r ELSE ReadLines(r.table, Tail(lines))

\* a merge in which the environment overrides the file
MergeEnv_EnvWins(envs, env) ==
    [k \in (DOMAIN envs) \cup (DOMAIN env) |->
        IF k \in DOMAIN env THEN env[k] ELSE envs[k]]

\* `for (key, value) in std::env::vars()`: a vacant entry is filled, an occupied
\* one is left alone
MergeEnv(envs, env) ==
    [k \in (DOMAIN envs) \cup (DOMAIN env) |->
        IF k \in DOMAIN envs THEN envs[k] ELSE env[k]]

\* fs::File::open(".env") and what follows it
read_envs(file, env) ==
    IF file.status = "NotFound"
    THEN LoadOk(MergeEnv(EmptyMap, env))
    ELSE IF file.status = "OpenErr"
         THEN LoadErr(LoadError("SourceOpenFailure", <<>>))
         ELSE LET r == ReadLines(EmptyMap, file.lines)
              IN  IF r.kind = "Err" THEN r ELSE LoadOk(MergeEnv(r.table, env))

\* std::env::var(name) on the live environment
env_var(env, name) ==
    IF name \in DOMAIN env
    THEN [kind |-> "Ok", value |-> env[name]]
    ELSE [kind |-> "Err", value |-> <<>>]

(***************************************************************************)
(* Format::next: one step of the scanner.                                  *)
(***************************************************************************)
FormatError(kind, name, at) == [kind |-> kind, name |-> name, at |-> at]

\* `get` lists the keys the step looked up in the table
StepNone == [kind |-> "None"]

StepPanic == [kind |-> "Panic"]

StepErr(error, get) == [kind |-> "Err", error |-> error, get |-> get]

StepPart(kind, text, input, consumed, get) ==
    [kind |-> kind, text |-> text, input |-> input, consumed |-> consumed, get |-> get]

\* a rest that starts one character too far
ArgumentRest_SkipsOne(input, at) == SubSeq(input, at + 2, Len(input))

\* &self.input[idx+1..], `at` the 1-based position of the closing bracket
ArgumentRest(input, at) == SubSeq(input, at + 1, Len(input))

\* a branch that does not look at the character after the closing bracket
ArgumentStep_NoCloseCheck(input, table, consumed, at) ==
    LET key == SubSeq(input, 2, at - 1)
    IN  IF key \in DOMAIN table
        THEN StepPart("Argument", table[key], ArgumentRest(input, at),
                      consumed + Len(key) + 2, <<key>>)
        ELSE StepErr(FormatError("MissingValue", key, 0), <<key>>)

\* a branch that counts the key and one bracket only as consumed
ArgumentStep_ShortCount(input, table, consumed, at) ==
    LET key == SubSeq(input, 2, at - 1)
    IN  IF key \in DOMAIN table
        THEN LET new_input == ArgumentRest(input, at)
             IN  IF new_input # <<>> /\ new_input[1] = ARG_END
                 THEN StepErr(FormatError("BracketEscapeInvalid", <<>>,
                                          consumed + Len(key) + 1), <<key>>)
                 ELSE StepPart("Argument", table[key], new_input,
                               consumed + Len(key) + 1, <<key>>)
        ELSE StepErr(FormatError("MissingValue", key, 0), <<key>>)

\* a branch that rejects the doubled closing bracket before it looks the key up
ArgumentStep_CloseFirst(input, table, consumed, at) ==
    LET key == SubSeq(input, 2, at - 1)
        new_input == ArgumentRest(input, at)
    IN  IF new_input # <<>> /\ new_input[1] = ARG_END
        THEN StepErr(FormatError("BracketEscapeInvalid", <<>>,
                                 consumed + Len(key) + 1), <<>>)
        ELSE IF key \in DOMAIN table
             THEN StepPart("Argument", table[key], new_input,
                           consumed + Len(key) + 2, <<key>>)
             ELSE StepErr(FormatError("MissingValue", key, 0), <<key>>)

\* the branch of a step whose input starts with '{' and holds a '}' at `at`
ArgumentStep(input, table, consumed, at) ==
    LET key == SubSeq(input, 2, at - 1)
    IN  IF key \in DOMAIN table
        THEN LET new_input == ArgumentRest(input, at)
             IN  IF new_input # <<>> /\ new_input[1] = ARG_END
                 THEN StepErr(FormatError("BracketEscapeInvalid", <<>>,
                                          consumed + Len(key) + 1), <<key>>)
                 ELSE StepPart("Argument", table[key], new_input,
                               consumed + Len(key) + 2, <<key>>)
        ELSE StepErr(FormatError("MissingValue", key, 0), <<key>>)

\* a plain branch that yields the span and leaves the cursor where it was
PlainStep_KeepsInput(input, consumed) ==
    LET at == find(input, ARG_START)
    IN  IF at # 0
        THEN StepPart("Plain", SubSeq(input, 1, at - 1), input, consumed, <<>>)
        ELSE StepPart("Plain", input, input, consumed, <<>>)

\* the branch of a step whose input does not start with '{'
PlainStep(input, consumed) ==
    LET at == find(input, ARG_START)
    IN  IF at # 0
        THEN LET result == SubSeq(input, 1, at - 1)
             IN  StepPart("Plain", result, SliceFrom(input, Len(result)),
                          consumed + Len(result), <<>>)
        ELSE StepPart("Plain", input, SliceFrom(input, Len(input)),
                      consumed + Len(input), <<>>)

\* a check that never sees the doubled bracket
SecondIsStart_Never(input) ==
    IF Len(input) < 2 THEN "OutOfBounds" ELSE "No"

\* self.input.as_bytes()[1] == '{'; the index panics when it is out of bounds
SecondIsStart(input) ==
    IF Len(input) < 2 THEN "OutOfBounds"
    ELSE IF input[2] = ARG_START THEN "Yes" ELSE "No"

Format_next(input, table, consumed) ==
    IF input = <<>>
    THEN StepNone
    ELSE IF input[1] = ARG_START
         THEN LET second == SecondIsStart(input)
              IN  IF second = "OutOfBounds"
                  THEN StepPanic
                  ELSE IF second = "Yes"
                       THEN StepErr(FormatError("BracketEscapeInvalid", <<>>,
                                                consumed + 1), <<>>)
                       ELSE LET at == find(input, ARG_END)
                            IN  IF at # 0
                                THEN ArgumentStep(input, table, consumed, at)
                                ELSE StepErr(FormatError("MissingClosingBracket",
                                                         <<>>, consumed), <<>>)
         ELSE PlainStep(input, consumed)

(***************************************************************************)
(* Args::from_tokens: the macro's argument.                                *)
(***************************************************************************)
\* a token stream: one literal with its source text, another token, or nothing
Token(kind, text) == [kind |-> kind, text |-> text]

StrLit(s) == Token("Literal", <<QUOTE>> \o s \o <<QUOTE>>)

\* str::trim_matches(QUOTE): every leading and trailing quote is removed
RECURSIVE trim_matches(_)
trim_matches(s) ==
    IF s # <<>> /\ s[1] = QUOTE THEN trim_matches(Tail(s))
    ELSE IF s # <<>> /\ s[Len(s)] = QUOTE THEN trim_matches(SubSeq(s, 1, Len(s) - 1))
    ELSE s

Args_from_tokens(tok) ==
    IF tok.kind = "Literal"
    THEN LET result == trim_matches(tok.text)
         IN  IF Len(result) + 2 # Len(tok.text)
             THEN [kind |-> "Err", error |-> "InputNotStringLiteral", input |-> <<>>]
             ELSE [kind |-> "Ok", error |-> "", input |-> result]
    ELSE IF tok.kind = "Other"
         THEN [kind |-> "Err", error |-> "InputNotStringLiteral", input |-> <<>>]
         ELSE [kind |-> "Err", error |-> "MissingInput", input |-> <<>>]

(***************************************************************************)
(* The process: the cell, the Once and the threads expanding `env!`.       *)
(***************************************************************************)
\* MaybeUninit::uninit()
Uninit == [kind |-> "Uninit"]

\* a frame that holds no reference to the cell's content (yet)
NoRef == [kind |-> "NoRef"]

NoResult == [kind |-> "None"]

\* what `env` returns: the string literal it emits, or a compile_error!(..)
Literal(output) == [kind |-> "Literal", text |-> output]

CompileError(error) == [kind |-> "CompileError", error |-> error]

\* the expansion does not return: the thread panicked
Panicked(why) == [kind |-> "Panic", why |-> why]

\* the string a literal denotes: the text between its quotes
Resolved(result) == SubSeq(result.text, 2, Len(result.text) - 1)

IdleFrame ==
    [pc |-> "idle", template |-> <<>>, loaded |-> NoRef, envs |-> NoRef,
     input |-> <<>>, consumed |-> 0, output |-> <<>>, plain_len |-> 0,
     args_len |-> 0, lookups |-> <<>>, result |-> NoResult]

Finished(f, result) == [f EXCEPT !.pc = "done", !.result = result]

InitWith(Files, Envs) ==
    /\ dotenv \in Files
    /\ environ \in Envs
    /\ debug_assertions \in BOOLEAN
    /\ once = "INCOMPLETE"
    /\ cell = Uninit
    /\ calls = 0
    /\ frame = [t \in Threads |-> IdleFrame]

\* env(input): Args::from_tokens, up to the call of read_cached_envs
Call(t, Tokens) ==
    /\ frame[t].pc = "idle"
    /\ \E tok \in Tokens :
          LET args == Args_from_tokens(tok)
          IN  frame' = [frame EXCEPT ![t] =
                  IF args.kind = "Err"
                  THEN Finished(IdleFrame, CompileError(LoadError(args.error, <<>>)))
                  ELSE [IdleFrame EXCEPT !.pc = "call_once", !.template = args.input]]
    /\ UNCHANGED <<dotenv, environ, debug_assertions, once, cell, calls>>

\* a call_once that lets every caller of an uncompleted Once run the closure
CallOnce_Unguarded(t) ==
    /\ frame[t].pc = "call_once"
    /\ IF once = "COMPLETE"
       THEN /\ frame' = [frame EXCEPT ![t].pc = "deref"]
            /\ once' = once
       ELSE /\ frame' = [frame EXCEPT ![t].pc = "closure"]
            /\ once' = "RUNNING"
    /\ UNCHANGED <<dotenv, environ, debug_assertions, cell, calls>>

\* a call_once that does not wait for the thread running the closure
CallOnce_NoWait(t) ==
    /\ frame[t].pc = "call_once"
    /\ IF once = "INCOMPLETE"
       THEN /\ frame' = [frame EXCEPT ![t].pc = "closure"]
            /\ once' = "RUNNING"
       ELSE /\ frame' = [frame EXCEPT ![t].pc = "deref"]
            /\ once' = once
    /\ UNCHANGED <<dotenv, environ, debug_assertions, cell, calls>>

\* a call_once that enters the closure again when the stored result is stale
CallOnce_Reload(t) ==
    /\ frame[t].pc = "call_once"
    /\ once # "RUNNING"
    /\ IF once = "COMPLETE" /\ cell = read_envs(dotenv, environ)
       THEN /\ frame' = [frame EXCEPT ![t].pc = "deref"]
            /\ once' = once
       ELSE /\ frame' = [frame EXCEPT ![t].pc = "closure"]
            /\ once' = "RUNNING"
    /\ UNCHANGED <<dotenv, environ, debug_assertions, cell, calls>>

\* LOCK.call_once: a completed Once is passed, an incomplete one is taken and
\* the closure entered; while another thread runs the closure the caller waits
CallOnce(t) ==
    /\ frame[t].pc = "call_once"
    /\ once # "RUNNING"
    /\ IF once = "COMPLETE"
       THEN /\ frame' = [frame EXCEPT ![t].pc = "deref"]
            /\ once' = once
       ELSE /\ frame' = [frame EXCEPT ![t].pc = "closure"]
            /\ once' = "RUNNING"
    /\ UNCHANGED <<dotenv, environ, debug_assertions, cell, calls>>

\* the closure: read_envs() is evaluated
RunLoader(t) ==
    /\ frame[t].pc = "closure"
    /\ calls' = calls + 1
    /\ frame' = [frame EXCEPT ![t].pc = "store",
                              ![t].loaded = read_envs(dotenv, environ)]
    /\ UNCHANGED <<dotenv, environ, debug_assertions, once, cell>>

\* the closure: *STATE.0.get() = MaybeUninit::new(..)
StoreCell(t) ==
    /\ frame[t].pc = "store"
    /\ cell' = frame[t].loaded
    /\ frame' = [frame EXCEPT ![t].pc = "complete", ![t].loaded = NoRef]
    /\ UNCHANGED <<dotenv, environ, debug_assertions, once, calls>>

\* a completion that leaves the Once open for a retry after a failed load
Complete_RetryOnErr(t) ==
    /\ frame[t].pc = "complete"
    /\ once' = IF cell.kind = "Err" THEN "INCOMPLETE" ELSE "COMPLETE"
    /\ frame' = [frame EXCEPT ![t].pc = "deref"]
    /\ UNCHANGED <<dotenv, environ, debug_assertions, cell, calls>>

\* a completion that never marks the Once complete, so no waiter is released
Complete_NeverCompletes(t) ==
    /\ frame[t].pc = "complete"
    /\ once' = once
    /\ frame' = [frame EXCEPT ![t].pc = "deref"]
    /\ UNCHANGED <<dotenv, environ, debug_assertions, cell, calls>>

\* the closure returned: the Once is completed and the waiters are released
Complete(t) ==
    /\ frame[t].pc = "complete"
    /\ once' = "COMPLETE"
    /\ frame' = [frame EXCEPT ![t].pc = "deref"]
    /\ UNCHANGED <<dotenv, environ, debug_assertions, cell, calls>>

\* &*(STATE.0.get()) and the match on it in `env`; the formatter is created.
\* Reading the cell before it is written is undefined behaviour: the frame
\* then holds whatever the cell held.
Deref(t) ==
    /\ frame[t].pc = "deref"
    /\ LET f == frame[t]
       IN  frame' = [frame EXCEPT ![t] =
              IF cell.kind = "Ok"
              THEN [f EXCEPT !.pc = "scan", !.envs = cell, !.input = f.template,
                             !.consumed = 0, !.output = <<QUOTE>>]
              ELSE IF cell.kind = "Err"
                   THEN Finished([f EXCEPT !.envs = cell], CompileError(cell.error))
                   ELSE Finished([f EXCEPT !.envs = cell], Panicked("uninit"))]
    /\ UNCHANGED <<dotenv, environ, debug_assertions, once, cell, calls>>

\* a loop that ends at an error and returns what the buffer holds so far
Scan_PartialOutput(t) ==
    /\ frame[t].pc = "scan"
    /\ LET f == frame[t]
           part == Format_next(f.input, f.envs.table, f.consumed)
       IN  frame' = [frame EXCEPT ![t] =
              CASE part.kind = "None" -> [f EXCEPT !.pc = "finish"]
                [] part.kind = "Panic" -> Finished(f, Panicked("index"))
                [] part.kind = "Err" ->
                      Finished([f EXCEPT !.lookups = @ \o part.get],
                               Literal(f.output \o <<QUOTE>>))
                [] part.kind = "Plain" ->
                      [f EXCEPT !.plain_len = @ + 1, !.output = @ \o part.text,
                                !.input = part.input, !.consumed = part.consumed,
                                !.lookups = @ \o part.get]
                [] part.kind = "Argument" ->
                      [f EXCEPT !.args_len = @ + 1, !.output = @ \o part.text,
                                !.input = part.input, !.consumed = part.consumed,
                                !.lookups = @ \o part.get]]
    /\ UNCHANGED <<dotenv, environ, debug_assertions, once, cell, calls>>

\* one iteration of `while let Some(part) = formatter.next()`
Scan(t) ==
    /\ frame[t].pc = "scan"
    /\ LET f == frame[t]
           part == Format_next(f.input, f.envs.table, f.consumed)
       IN  frame' = [frame EXCEPT ![t] =
              CASE part.kind = "None" -> [f EXCEPT !.pc = "finish"]
                [] part.kind = "Panic" -> Finished(f, Panicked("index"))
                [] part.kind = "Err" ->
                      Finished([f EXCEPT !.lookups = @ \o part.get],
                               CompileError(part.error))
                [] part.kind = "Plain" ->
                      [f EXCEPT !.plain_len = @ + 1, !.output = @ \o part.text,
                                !.input = part.input, !.consumed = part.consumed,
                                !.lookups = @ \o part.get]
                [] part.kind = "Argument" ->
                      [f EXCEPT !.args_len = @ + 1, !.output = @ \o part.text,
                                !.input = part.input, !.consumed = part.consumed,
                                !.lookups = @ \o part.get]]
    /\ UNCHANGED <<dotenv, environ, debug_assertions, once, cell, calls>>

\* after the loop: the bare name rule, the closing quote and output.parse()
Finish(t) ==
    /\ frame[t].pc = "finish"
    /\ LET f == frame[t]
           name == SubSeq(f.output, 2, Len(f.output))
           value == env_var(environ, name)
       IN  frame' = [frame EXCEPT ![t] =
              IF f.args_len = 0
              THEN IF debug_assertions /\ f.plain_len # 1
                   THEN Finished(f, Panicked("debug_assert_eq"))
                   ELSE IF value.kind = "Ok"
                        THEN Finished(f, Literal(<<QUOTE>> \o value.value \o <<QUOTE>>))
                        ELSE Finished(f, CompileError(LoadError("BareNameNotFound", name)))
              ELSE Finished(f, Literal(f.output \o <<QUOTE>>))]
    /\ UNCHANGED <<dotenv, environ, debug_assertions, once, cell, calls>>

\* the expansion is over; the thread may expand the next macro call
Return(t) ==
    /\ frame[t].pc = "done"
    /\ frame' = [frame EXCEPT ![t] = IdleFrame]
    /\ UNCHANGED <<dotenv, environ, debug_assertions, once, cell, calls>>

\* the `.env` file is rewritten, removed or created while the process runs
ChangeFile(Files) ==
    /\ dotenv' \in Files \ {dotenv}
    /\ UNCHANGED <<environ, debug_assertions, once, cell, calls, frame>>

\* the process environment is changed while the process runs
ChangeEnv(Envs) ==
    /\ environ' \in Envs \ {environ}
    /\ UNCHANGED <<dotenv, debug_assertions, once, cell, calls, frame>>

\* the steps of one expansion after its call
Expand(t) ==
    \/ CallOnce(t)
    \/ RunLoader(t)
    \/ StoreCell(t)
    \/ Complete(t)
    \/ Deref(t)
    \/ Scan(t)
    \/ Finish(t)
    \/ Return(t)

(***************************************************************************)
(* Inputs.                                                                 *)
(***************************************************************************)
NoFile == [status |-> "NotFound", lines |-> <<>>]

Unreadable == [status |-> "OpenErr", lines |-> <<>>]

File(lines) == [status |-> "Ok", lines |-> lines]

NameA == <<"A">>
NameB == <<"b">>

\* tokens that are no string literal: a number, an identifier, an empty stream
BadTokens == {Token("Literal", <<"1">>), Token("Other", <<>>), Token("None", <<>>)}

(***************************************************************************)
(* Spec: the process with its threads; the file and the environment may    *)
(* change while it runs.                                                   *)
(***************************************************************************)
ProcFiles ==
    {NoFile,
     File(<< <<"A", "=", "1">> >>),
     File(<< <<"A", "=", "1">>, <<"A", "=", "1">> >>)}

ProcEnvs == {EmptyMap, NameA :> <<"3">>}

ProcTokens == {StrLit(NameA), StrLit(<<"{", "A", "}">>), Token("Other", <<>>)}

Init == InitWith(ProcFiles, ProcEnvs)

Next ==
    \/ \E t \in Threads : Call(t, ProcTokens)
    \/ \E t \in Threads : Expand(t)
    \/ ChangeFile(ProcFiles)
    \/ ChangeEnv(ProcEnvs)

Spec == Init /\ [][Next]_vars

(***************************************************************************)
(* SpecRender: one thread expands every template up to MaxLen characters.  *)
(***************************************************************************)
TemplateChars == {ARG_START, ARG_END, "A", "b"}

Templates == Strings(TemplateChars, MaxLen)

\* the second file also gives the names "", "{" and "}" a value
RenderFiles ==
    {NoFile,
     File(<< <<"A", "=", "1">>, <<"=", "2">>, <<ARG_START, "=", "5">>,
             <<ARG_END, "=", "6">> >>)}

RenderEnvs == {NameB :> <<"4">>, NameA :> <<"3">>}

RenderTokens == {StrLit(s) : s \in Templates} \cup BadTokens

InitRender == InitWith(RenderFiles, RenderEnvs)

NextRender ==
    \/ Call(1, RenderTokens)
    \/ Expand(1)

SpecRender == InitRender /\ [][NextRender]_vars

(***************************************************************************)
(* SpecLoad: one thread loads every file of up to MaxLines lines.          *)
(***************************************************************************)
FileLines ==
    {<<"A", "=", "1">>, <<"A", "=", "2">>, <<"b", "=", "1">>, <<"A">>,
     <<"=", "1">>, <<"A", "=", "1", "=", "2">>, <<>>, <<"b", BAD_UTF8>>}

LoadFiles ==
    {NoFile, Unreadable} \cup {File(l) : l \in Strings(FileLines, MaxLines)}

LoadEnvs ==
    UNION {[D -> {<<"3">>}] : D \in SUBSET {NameA, NameB}}

LoadTokens == {StrLit(NameA), StrLit(<<"{", "A", "}">>), StrLit(<<"{", "}">>)}

InitLoad == InitWith(LoadFiles, LoadEnvs)

NextLoad ==
    \/ Call(1, LoadTokens)
    \/ Expand(1)

SpecLoad == InitLoad /\ [][NextLoad]_vars

(***************************************************************************)
(* Properties of the cache (Spec).                                         *)
(***************************************************************************)
\* the frame holds the reference read_cached_envs returned
Returned(t) == frame[t].envs # NoRef

\* C1: read_envs is invoked exactly once in the process: at most one thread is
\* ever inside the closure, the count of invocations never exceeds one, and
\* every caller that got past call_once finds exactly one invocation made.
LoaderRunsOnce ==
    /\ calls \in {0, 1}
    /\ once = "INCOMPLETE" => calls = 0
    /\ Cardinality({t \in Threads :
                      frame[t].pc \in {"closure", "store", "complete"}}) <= 1
    /\ \A t \in Threads :
          (frame[t].pc \in {"store", "complete", "deref"} \/ Returned(t))
              => calls = 1

\* C1 witness: two callers have both returned from read_cached_envs and one
\* invocation was made.
TwoCallersOneLoad ==
    \E t1, t2 \in Threads :
        /\ t1 # t2
        /\ Returned(t1) /\ Returned(t2)
        /\ calls = 1

\* C2: a caller that has returned holds the stored result of the invocation,
\* never an unwritten cell, and all callers that have returned hold the same
\* result value.
ReturnedSeeStored ==
    /\ \A t \in Threads :
          (frame[t].pc = "deref" \/ Returned(t))
              => once = "COMPLETE" /\ cell.kind \in {"Ok", "Err"}
    /\ \A t \in Threads : Returned(t) => frame[t].envs = cell
    /\ \A t1, t2 \in Threads :
          Returned(t1) /\ Returned(t2) => frame[t1].envs = frame[t2].envs

\* C2 witness: two callers are done, both resolved against a success table.
TwoCallersSameTable ==
    \E t1, t2 \in Threads :
        /\ t1 # t2
        /\ frame[t1].pc = "done" /\ frame[t2].pc = "done"
        /\ frame[t1].envs.kind = "Ok" /\ frame[t2].envs.kind = "Ok"

\* C8: once the cell holds a failure it keeps it, read_envs is not called
\* again, and every caller that reads the cell returns that failure.
FailureCached ==
    [][cell.kind = "Err" =>
          /\ cell' = cell
          /\ calls' = calls
          /\ \A t \in Threads :
                (frame[t].pc = "deref" /\ frame'[t].pc # "deref")
                    => /\ frame'[t].pc = "done"
                       /\ frame'[t].result = CompileError(cell.error)]_vars

\* C8 witness: the file defined A twice when it was loaded and has been
\* repaired since; two expansions have failed with SourceDuplicateKey(A).
TwoFailWithDuplicateKey ==
    \E t1, t2 \in Threads :
        /\ t1 # t2
        /\ frame[t1].pc = "done" /\ frame[t2].pc = "done"
        /\ frame[t1].result = CompileError(LoadError("SourceDuplicateKey", NameA))
        /\ frame[t2].result = frame[t1].result
        /\ calls = 1
        /\ read_envs(dotenv, environ).kind = "Ok"

\* C9: once the cell is written it never changes, whatever happens to the
\* file and the environment, and every scan runs against the cell's table.
TableFrozen ==
    [][cell.kind # "Uninit" =>
          /\ cell' = cell
          /\ \A t \in Threads :
                frame'[t].pc \in {"scan", "finish"} => frame'[t].envs = cell]_vars

\* C9 witness: a placeholder was resolved to the cached value of A although
\* the file and environment now give A another value.
ResolvedAgainstOldTable ==
    \E t \in Threads :
        LET fresh == read_envs(dotenv, environ)
        IN  /\ frame[t].pc = "done"
            /\ frame[t].result.kind = "Literal"
            /\ frame[t].args_len = 1
            /\ fresh.kind = "Ok"
            /\ NameA \in DOMAIN fresh.table
            /\ Resolved(frame[t].result) # fresh.table[NameA]

(***************************************************************************)
(* Properties of the scanner and the renderer (SpecRender).                *)
(***************************************************************************)
\* the expansion of thread t resolved its template against a loaded table
Rendered(t) == frame[t].pc = "done" /\ frame[t].envs.kind = "Ok"

\* two equal brackets side by side somewhere in s
HasDoubled(s) ==
    \E i \in 1..(Len(s) - 1) : s[i] = s[i + 1] /\ s[i] \in {ARG_START, ARG_END}

StartsDoubled(s) == Len(s) >= 2 /\ s[1] = ARG_START /\ s[2] = ARG_START

\* every '{' of s opens a placeholder {NAME} whose NAME is a key of the table
RECURSIVE PlaceholdersDefined(_, _)
PlaceholdersDefined(s, table) ==
    IF s = <<>> THEN TRUE
    ELSE IF s[1] = ARG_START
         THEN \E at \in 2..Len(s) :
                 /\ s[at] = ARG_END
                 /\ \A j \in 2..(at - 1) : s[j] \notin {ARG_START, ARG_END}
                 /\ SubSeq(s, 2, at - 1) \in DOMAIN table
                 /\ PlaceholdersDefined(SubSeq(s, at + 1, Len(s)), table)
         ELSE PlaceholdersDefined(Tail(s), table)

\* s with every {NAME} replaced by the table's value, character by character
RECURSIVE Substituted(_, _)
Substituted(s, table) ==
    IF s = <<>> THEN <<>>
    ELSE IF s[1] = ARG_START
         THEN LET at == CHOOSE k \in 2..Len(s) :
                           s[k] = ARG_END /\ \A j \in 2..(k - 1) : s[j] # ARG_END
              IN  table[SubSeq(s, 2, at - 1)]
                      \o Substituted(SubSeq(s, at + 1, Len(s)), table)
         ELSE <<s[1]>> \o Substituted(Tail(s), table)

\* C3: a template with at least one placeholder, whose placeholders are all
\* defined and which doubles no bracket, resolves to the template with every
\* placeholder replaced by its value and the plain text kept, in order.
PlaceholdersSubstituted ==
    \A t \in Threads :
        (/\ Rendered(t)
         /\ ARG_START \in Range(frame[t].template)
         /\ ~HasDoubled(frame[t].template)
         /\ PlaceholdersDefined(frame[t].template, frame[t].envs.table))
            => /\ frame[t].result.kind = "Literal"
               /\ Resolved(frame[t].result)
                     = Substituted(frame[t].template, frame[t].envs.table)

\* C3 witness: a template with two placeholders and plain text has resolved.
TwoPlaceholdersResolved ==
    \E t \in Threads :
        /\ Rendered(t)
        /\ frame[t].result.kind = "Literal"
        /\ frame[t].args_len = 2
        /\ frame[t].plain_len >= 1
        /\ ~HasDoubled(frame[t].template)
        /\ PlaceholdersDefined(frame[t].template, frame[t].envs.table)

\* C4: a template that holds {{ or }} anywhere never resolves to a string.
DoubledNeverResolves ==
    \A t \in Threads :
        (Rendered(t) /\ HasDoubled(frame[t].template))
            => frame[t].result.kind # "Literal"

\* C5: a scan step on input that starts with one '{' and holds no '}' returns
\* MissingClosingBracket with the consumed count, looks nothing up and does
\* not panic.
UnterminatedReported ==
    [][\A t \in Threads :
          (/\ frame[t].pc = "scan"
           /\ frame'[t] # frame[t]
           /\ frame[t].input # <<>>
           /\ frame[t].input[1] = ARG_START
           /\ ~StartsDoubled(frame[t].input)
           /\ ARG_END \notin Range(frame[t].input))
              => /\ frame'[t].pc = "done"
                 /\ frame'[t].result = CompileError(
                        FormatError("MissingClosingBracket", <<>>, frame[t].consumed))
                 /\ frame'[t].lookups = frame[t].lookups]_vars

\* C6: a template without '{' yields no Argument part, consults the table
\* not at all, and resolves to the live environment's value of the variable
\* named by the whole template, or fails with BareNameNotFound of that name.
BareNameFromEnviron ==
    \A t \in Threads :
        (Rendered(t) /\ ARG_START \notin Range(frame[t].template))
            => /\ frame[t].args_len = 0
               /\ frame[t].lookups = <<>>
               /\ frame[t].result =
                     IF frame[t].template \in DOMAIN environ
                     THEN Literal(<<QUOTE>> \o environ[frame[t].template] \o <<QUOTE>>)
                     ELSE CompileError(LoadError("BareNameNotFound", frame[t].template))

\* C10: a scan step on input that starts with {{ ends the expansion with
\* BracketEscapeInvalid at the template position of the second '{', and
\* looks up and emits nothing.
DoubleOpenRejected ==
    [][\A t \in Threads :
          (/\ frame[t].pc = "scan"
           /\ frame'[t] # frame[t]
           /\ StartsDoubled(frame[t].input))
              => LET second == Len(frame[t].template) - Len(frame[t].input) + 1
                 IN  /\ frame'[t].pc = "done"
                     /\ frame'[t].result = CompileError(
                            FormatError("BracketEscapeInvalid", <<>>, second))
                     /\ frame[t].template[second] = ARG_START
                     /\ frame[t].template[second + 1] = ARG_START
                     /\ frame'[t].lookups = frame[t].lookups
                     /\ frame'[t].output = frame[t].output
                     /\ frame'[t].args_len = frame[t].args_len]_vars

\* C10 witness: after a part was consumed the scan stopped at {{A} with A
\* defined, reporting BracketEscapeInvalid one past the consumed count.
DoubleOpenAfterPart ==
    \E t \in Threads :
        /\ Rendered(t)
        /\ frame[t].consumed >= 1
        /\ frame[t].input = <<ARG_START, ARG_START, "A", ARG_END>>
        /\ NameA \in DOMAIN frame[t].envs.table
        /\ frame[t].result = CompileError(
               FormatError("BracketEscapeInvalid", <<>>, frame[t].consumed + 1))

(***************************************************************************)
(* Properties of the loader (SpecLoad).                                    *)
(***************************************************************************)
\* the name and the value of a line that holds a separator
LineName(line) ==
    SubSeq(line, 1, (CHOOSE i \in 1..Len(line) :
                        line[i] = EQ /\ \A j \in 1..(i - 1) : line[j] # EQ) - 1)

LineValue(line) == SubSeq(line, Len(LineName(line)) + 2, Len(line))

\* the file is absent, or every line has a separator and no name is repeated
ParsesOk(file) ==
    \/ file.status = "NotFound"
    \/ /\ file.status = "Ok"
       /\ \A i \in 1..Len(file.lines) :
             EQ \in Range(file.lines[i]) /\ BAD_UTF8 \notin Range(file.lines[i])
       /\ \A i, j \in 1..Len(file.lines) :
             i # j => LineName(file.lines[i]) # LineName(file.lines[j])

FileNames(file) == {LineName(file.lines[i]) : i \in 1..Len(file.lines)}

\* C7: for a file that parses, the merged table's keys are the file's names
\* and the environment's names; a name of the file has the file's value, any
\* other name the environment's value.
FileWins ==
    (cell.kind # "Uninit" /\ ParsesOk(dotenv)) =>
        /\ cell.kind = "Ok"
        /\ DOMAIN cell.table = FileNames(dotenv) \cup DOMAIN environ
        /\ \A i \in 1..Len(dotenv.lines) :
              cell.table[LineName(dotenv.lines[i])] = LineValue(dotenv.lines[i])
        /\ \A n \in (DOMAIN environ) \ FileNames(dotenv) :
              cell.table[n] = environ[n]

\* C7 witness: the file and the environment give A different values, the
\* environment alone defines b, and the table was built.
FileAndEnvClash ==
    /\ cell.kind = "Ok"
    /\ ParsesOk(dotenv)
    /\ NameA \in FileNames(dotenv) /\ NameA \in DOMAIN environ
    /\ NameB \in (DOMAIN environ) \ FileNames(dotenv)
    /\ cell.table[NameA] # environ[NameA]

(***************************************************************************)
(* Further properties of the scanner and the renderer (SpecRender).        *)
(***************************************************************************)
\* s starts with the characters of p
StartsWith(s, p) == Len(s) >= Len(p) /\ SubSeq(s, 1, Len(p)) = p

\* {NAME} followed by one more closing bracket
ClosedTwice(name) == <<ARG_START>> \o name \o <<ARG_END, ARG_END>>

\* the scan step of thread t on input {NAME}} is rejected just past the name
RejectedPastName(t, name) ==
    /\ frame'[t].pc = "done"
    /\ frame'[t].result = CompileError(
           FormatError("BracketEscapeInvalid", <<>>,
                       frame[t].consumed + Len(name) + 1))
    /\ frame'[t].args_len = frame[t].args_len
    /\ frame'[t].output = frame[t].output
    /\ frame'[t].input = frame[t].input
    /\ frame'[t].consumed = frame[t].consumed

\* C11 as stated: a scan step on {NAME}} with NAME any key of the table
\* returns BracketEscapeInvalid at consumed + Len(NAME) + 1, yields no
\* Argument part and leaves the cursor where it was.
DoubleCloseRejectedAnyName ==
    [][\A t \in Threads :
          (frame[t].pc = "scan" /\ frame'[t] # frame[t])
              => \A name \in DOMAIN frame[t].envs.table :
                    StartsWith(frame[t].input, ClosedTwice(name))
                        => RejectedPastName(t, name)]_vars

\* C11 as amended: the same for every key that does not start with '{' and
\* holds no '}'; the placeholder without the extra '}' yields the key's value.
DoubleCloseRejected ==
    [][\A t \in Threads :
          (frame[t].pc = "scan" /\ frame'[t] # frame[t])
              => \A name \in DOMAIN frame[t].envs.table :
                    (/\ StartsWith(frame[t].input, ClosedTwice(name))
                     /\ ~StartsWith(name, <<ARG_START>>)
                     /\ ARG_END \notin Range(name))
                        => /\ RejectedPastName(t, name)
                           /\ frame[t].template[
                                  frame[t].consumed + Len(name) + 2] = ARG_END
                           /\ Format_next(<<ARG_START>> \o name \o <<ARG_END>>,
                                          frame[t].envs.table, frame[t].consumed)
                                 = StepPart("Argument", frame[t].envs.table[name],
                                            <<>>, frame[t].consumed + Len(name) + 2,
                                            <<name>>)]_vars

\* C11 witness: after a part was consumed the scan stopped at {A}} with A
\* defined, reporting BracketEscapeInvalid two past the consumed count.
DoubleCloseAfterPart ==
    \E t \in Threads :
        /\ Rendered(t)
        /\ frame[t].consumed >= 1
        /\ StartsWith(frame[t].input, ClosedTwice(NameA))
        /\ frame[t].result = CompileError(
               FormatError("BracketEscapeInvalid", <<>>, frame[t].consumed + 2))

\* the first step, scanning from the given position, that yields no part
RECURSIVE ScanOutcome(_, _, _)
ScanOutcome(input, table, consumed) ==
    LET part == Format_next(input, table, consumed)
    IN  IF part.kind \in {"Plain", "Argument"}
        THEN ScanOutcome(part.input, table, part.consumed)
        ELSE part

\* C12: when a scan step of the template reports an error, the expansion
\* returns the error of the first such step and no string, whatever the
\* buffer holds by then; a string is returned only when no step failed.
NoPartialSuccess ==
    \A t \in Threads :
        Rendered(t) =>
            LET end == ScanOutcome(frame[t].template, frame[t].envs.table, 0)
            IN  /\ end.kind = "Err" => frame[t].result = CompileError(end.error)
                /\ frame[t].result.kind = "Literal" => end.kind = "None"

\* C12 witness: an expansion failed with a scanner error after a Plain and
\* an Argument span had been appended to the buffer.
FailedAfterSpans ==
    \E t \in Threads :
        /\ Rendered(t)
        /\ frame[t].plain_len >= 1 /\ frame[t].args_len >= 1
        /\ Len(frame[t].output) >= 3
        /\ frame[t].result.kind = "CompileError"
        /\ frame[t].result.error.kind
              \in {"MissingValue", "MissingClosingBracket", "BracketEscapeInvalid"}

\* C13: a scan step on input {NAME}.., the first '}' closing it and NAME not
\* starting with '{', with NAME no key of the table, ends the expansion with
\* MissingValue(NAME), whatever follows the closing bracket.
UnknownVariableReported ==
    [][\A t \in Threads :
          (frame[t].pc = "scan" /\ frame'[t] # frame[t])
              => \A at \in 2..Len(frame[t].input) :
                    LET in == frame[t].input
                        name == SubSeq(in, 2, at - 1)
                    IN  (/\ in[1] = ARG_START
                         /\ in[at] = ARG_END
                         /\ \A j \in 2..(at - 1) : in[j] # ARG_END
                         /\ ~StartsWith(name, <<ARG_START>>)
                         /\ name \notin DOMAIN frame[t].envs.table)
                            => /\ frame'[t].pc = "done"
                               /\ frame'[t].result = CompileError(
                                      FormatError("MissingValue", name, 0))]_vars

\* C13 witness: the scan stopped at {b}} with b undefined and reported
\* MissingValue(b), not the doubled closing bracket.
UnknownBeforeDoubleClose ==
    \E t \in Threads :
        /\ Rendered(t)
        /\ NameB \notin DOMAIN frame[t].envs.table
        /\ StartsWith(frame[t].input, ClosedTwice(NameB))
        /\ frame[t].result = CompileError(FormatError("MissingValue", NameB, 0))

(***************************************************************************)
(* Further properties of the loader (SpecLoad).                            *)
(***************************************************************************)
\* the line is read and holds a separator, so it has a name
HasName(line) == EQ \in Range(line) /\ BAD_UTF8 \notin Range(line)

\* line i has the name of an earlier line
Repeats(lines, i) ==
    /\ HasName(lines[i])
    /\ \E j \in 1..(i - 1) :
          HasName(lines[j]) /\ LineName(lines[j]) = LineName(lines[i])

\* line i cannot be read, has no separator or repeats a name
Offending(lines, i) == ~HasName(lines[i]) \/ Repeats(lines, i)

\* line i is the first offending line of the file
FirstOffending(lines, i) ==
    Offending(lines, i) /\ \A j \in 1..(i - 1) : ~Offending(lines, j)

\* the loader has run on the file as it is
Loaded == cell.kind # "Uninit" /\ dotenv.status = "Ok"

\* C14 as stated: whenever two lines of the file have the same name, the
\* loader fails with SourceDuplicateKey of that name.
DuplicateAlwaysReported ==
    Loaded =>
        \A i \in 1..Len(dotenv.lines) :
            Repeats(dotenv.lines, i)
                => cell = LoadErr(LoadError("SourceDuplicateKey",
                                            LineName(dotenv.lines[i])))

\* C14 as amended: when the first offending line of the file is one that
\* repeats the name of an earlier line, the loader fails with
\* SourceDuplicateKey of that name, whatever the values and the environment.
FirstDuplicateReported ==
    Loaded =>
        \A i \in 1..Len(dotenv.lines) :
            (FirstOffending(dotenv.lines, i) /\ Repeats(dotenv.lines, i))
                => cell = LoadErr(LoadError("SourceDuplicateKey",
                                            LineName(dotenv.lines[i])))

\* C14 witness: the file gives A two different values, the environment
\* defines A as well, and the loader failed with SourceDuplicateKey(A).
DuplicateWithOtherValue ==
    /\ Loaded
    /\ Len(dotenv.lines) >= 2
    /\ HasName(dotenv.lines[1]) /\ HasName(dotenv.lines[2])
    /\ LineName(dotenv.lines[1]) = NameA /\ LineName(dotenv.lines[2]) = NameA
    /\ LineValue(dotenv.lines[1]) # LineValue(dotenv.lines[2])
    /\ NameA \in DOMAIN environ
    /\ cell = LoadErr(LoadError("SourceDuplicateKey", NameA))

(***************************************************************************)
(* SpecFair: the process of Spec under fair scheduling of its threads: a   *)
(* thread that can take a step of its expansion eventually takes one.      *)
(***************************************************************************)
\* the file is absent or defines A twice, so the load succeeds or fails
FairFiles == {NoFile, File(<< <<"A", "=", "1">>, <<"A", "=", "1">> >>)}

FairEnvs == {NameA :> <<"3">>}

InitFair == InitWith(FairFiles, FairEnvs)

NextFair ==
    \/ \E t \in Threads : Call(t, ProcTokens)
    \/ \E t \in Threads : Expand(t)
    \/ ChangeFile(FairFiles)

SpecFair ==
    InitFair /\ [][NextFair]_vars /\ \A t \in Threads : WF_vars(Expand(t))

\* C15: under fair scheduling every caller of read_cached_envs eventually
\* holds the reference it returns, also a caller that found the Once running.
EveryCallReturns ==
    \A t \in Threads : (frame[t].pc = "call_once") ~> Returned(t)

\* C15 witness: a caller waits at call_once while another thread is inside
\* the closure.
CallerWaitsForLoader ==
    \E t1, t2 \in Threads :
        /\ t1 # t2
        /\ frame[t1].pc = "call_once"
        /\ once = "RUNNING"
        /\ frame[t2].pc \in {"closure", "store", "complete"}

\* C16: a scan step that yields a Plain part shortens the remaining input by
\* at least 1 character, one that yields an Argument part by at least 2; the
\* loop is left without a part only on empty input; so the parts yielded never
\* outnumber the characters consumed and the loop ends within Len + 1 steps.
ScanTerminates ==
    [][\A t \in Threads :
          (frame[t].pc = "scan" /\ frame'[t] # frame[t])
              => /\ frame'[t].plain_len > frame[t].plain_len
                       => Len(frame'[t].input) <= Len(frame[t].input) - 1
                 /\ frame'[t].args_len > frame[t].args_len
                       => Len(frame'[t].input) <= Len(frame[t].input) - 2
                 /\ frame'[t].pc = "scan"
                       => Len(frame'[t].input) < Len(frame[t].input)
                 /\ frame'[t].pc = "finish"
                       => frame[t].input = <<>> /\ frame'[t].output = frame[t].output
                 /\ frame[t].input = <<>> => frame'[t].pc = "finish"
                 /\ frame'[t].plain_len + frame'[t].args_len + 1
                       <= Len(frame[t].template) - Len(frame'[t].input) + 1]_vars

\* C16 witness: the scan of a template of five or more characters yielded
\* three or more parts and was left on empty input.
ScanRanToEnd ==
    \E t \in Threads :
        /\ frame[t].pc = "finish"
        /\ frame[t].input = <<>>
        /\ Len(frame[t].template) >= 5
        /\ frame[t].plain_len + frame[t].args_len >= 3

\* the scanner of thread t exists: the formatter was created
Scanning(t) == frame[t].pc \in {"scan", "finish"} \/ Rendered(t)

\* the character of the template at a 0-based offset, "" past its end
TemplateAt(t, offset) ==
    IF offset + 1 \in 1..Len(frame[t].template)
    THEN frame[t].template[offset + 1]
    ELSE ""

\* C17: in every scanner state consumed + Len(input) = Len(template) and the
\* input is the template's suffix from `consumed`; so the offset of a
\* MissingClosingBracket is the template position of the unclosed '{' and
\* the offset of a BracketEscapeInvalid that of the second '{' of {{ or of
\* the first '}' of }}.
OffsetsAreAbsolute ==
    \A t \in Threads :
        Scanning(t) =>
            /\ frame[t].consumed + Len(frame[t].input) = Len(frame[t].template)
            /\ frame[t].input
                  = SubSeq(frame[t].template, frame[t].consumed + 1,
                           Len(frame[t].template))
            /\ (/\ frame[t].result.kind = "CompileError"
                /\ frame[t].result.error.kind = "MissingClosingBracket")
                  => /\ TemplateAt(t, frame[t].result.error.at) = ARG_START
                     /\ ARG_END \notin Range(SliceFrom(frame[t].template,
                                                      frame[t].result.error.at))
            /\ (/\ frame[t].result.kind = "CompileError"
                /\ frame[t].result.error.kind = "BracketEscapeInvalid")
                  => \/ /\ TemplateAt(t, frame[t].result.error.at - 1) = ARG_START
                        /\ TemplateAt(t, frame[t].result.error.at) = ARG_START
                     \/ /\ TemplateAt(t, frame[t].result.error.at) = ARG_END
                        /\ TemplateAt(t, frame[t].result.error.at + 1) = ARG_END

\* C17 witness: after a Plain and an Argument part the scan failed with an
\* offset that counts both.
OffsetAfterTwoParts ==
    \E t \in Threads :
        /\ Rendered(t)
        /\ frame[t].plain_len >= 1 /\ frame[t].args_len >= 1
        /\ frame[t].result.kind = "CompileError"
        /\ frame[t].result.error.kind
              \in {"MissingClosingBracket", "BracketEscapeInvalid"}
        /\ frame[t].result.error.at >= 4

\* C18: when the scan has run to its end and yielded no Argument part, it
\* has yielded exactly one Plain part, the whole template.
AssertionHolds ==
    \A t \in Threads :
        (frame[t].pc = "finish" /\ frame[t].args_len = 0)
            => /\ frame[t].plain_len = 1
               /\ frame[t].output = <<QUOTE>> \o frame[t].template

\* C19: no key of the merged table is the empty string, and the placeholder
\* {} never resolves to a value.
KeysNonEmpty ==
    /\ cell.kind = "Ok" => <<>> \notin DOMAIN cell.table
    /\ \A t \in Threads :
          (Rendered(t) /\ frame[t].template = <<ARG_START, ARG_END>>)
              => frame[t].result.kind # "Literal"

\* the failure of the loader at offending line i
ErrorOfLine(lines, i) ==
    IF BAD_UTF8 \in Range(lines[i])
    THEN LoadError("SourceReadFailure", <<>>)
    ELSE IF EQ \notin Range(lines[i])
         THEN LoadError("SourceMalformedLine", lines[i])
         ELSE LoadError("SourceDuplicateKey", LineName(lines[i]))

\* C20: each line is split at its first '=': the name is the text before it,
\* the value all the text after it; a line without '=' fails the load with
\* SourceMalformedLine of the line's text; the first offending line in file
\* order decides the failure.
LinesParsedInOrder ==
    Loaded =>
        /\ \A i \in 1..Len(dotenv.lines) :
              FirstOffending(dotenv.lines, i)
                  => cell = LoadErr(ErrorOfLine(dotenv.lines, i))
        /\ (\A i \in 1..Len(dotenv.lines) : ~Offending(dotenv.lines, i))
              => /\ cell.kind = "Ok"
                 /\ \A i \in 1..Len(dotenv.lines) :
                       LET line == dotenv.lines[i]
                           name == LineName(line)
                       IN  /\ name \in DOMAIN cell.table
                           /\ name \o <<EQ>> \o cell.table[name] = line

\* C20 witness: the file holds the line A=1=2 and other lines, it was
\* loaded, and A has the value 1=2.
ValueKeepsSeparator ==
    /\ Loaded
    /\ cell.kind = "Ok"
    /\ Len(dotenv.lines) >= 2
    /\ \E i \in 1..Len(dotenv.lines) :
          dotenv.lines[i] = <<"A", EQ, "1", EQ, "2">>
    /\ cell.table[NameA] = <<"1", EQ, "2">>

====
